---- MODULE Spec2Model ----
(***************************************************************************)
(* State-machine model of the incident monitor (src/main.go): the          *)
(* scheduler loop of SystemMonitor.Start, the three evaluators, the        *)
(* reconciliation in SystemMonitor.processType and the webhook delivery    *)
(* in sendIncident.  The host (sampled usage, the /mnt/* listing, the      *)
(* webhook's answers) is the environment: every step draws it from small   *)
(* sets.                                                                   *)
(***************************************************************************)
EXTENDS Integers, Sequences, FiniteSets, TLC

(***************************************************************************)
(* Bounds of the model and constants of the program.                       *)
(***************************************************************************)
\* number of ticks of the ticker that are explored (the clock stops there)
MaxTime == 3

\* a float64: a number, or NaN (strconv.ParseFloat, which flag.Float64 uses,
\* accepts "NaN"); the usage percentages are numbers
Float(v) == [nan |-> FALSE, v |-> v]
NaN == [nan |-> TRUE, v |-> 0]

\* a < b and a > b on float64: false when either side is NaN
FloatLess(a, b) == ~a.nan /\ ~b.nan /\ a.v < b.v
FloatGreater(a, b) == ~a.nan /\ ~b.nan /\ a.v > b.v

\* the flags of main with their defaults
FlagDefaults ==
    [url |-> "", interval |-> 300, cpuLimit |-> Float(90),
     memoryLimit |-> Float(90), diskLimit |-> Float(85)]

\* sendIncident: the first status code that counts as a failure
FailStatus == 400

hostname == "host"

\* the monitor types of NewSystemMonitor's map, in the order Start runs them
Types == {"cpu", "memory", "disk"}

\* the entries filepath.Glob("/mnt/*") can return, in its (sorted) order
MountOrder == <<"/mnt/data">>
Mounts == {MountOrder[k] : k \in 1..Len(MountOrder)}

\* a dimension: cpu, memory, the root filesystem or one mount
Dims == {"cpu", "memory", "/"} \cup Mounts

Class(d) == IF d \in {"cpu", "memory"} THEN d ELSE "disk"

DimsOf(t) == {d \in Dims : Class(d) = t}

\* usage percentages the samplers may report (under, at and over each limit)
Values == {50, 85, 90, 95}

\* what the webhook may answer: a transport error, or a status code
StatusCodes == {200, 399, 400}
Responses == {[neterr |-> TRUE, status |-> 0]}
               \cup {[neterr |-> FALSE, status |-> c] : c \in StatusCodes}

VARIABLES
    incidents,  \* SystemMonitor.incidents: monitor type -> list of active incidents
    pc,         \* where Start's loop stands: "wait", "cpu", "memory", "disk"
    now,        \* time.Now().Unix(), counted in ticks
    last,       \* the last processType call: its type, what was observed, what was sent
    breached,   \* per dimension: the breach flag of its last successful observation
    episode,    \* per dimension, the creates of its current breach episode: "none"
                \* sent, "failed" (sent, none delivered), "delivered"
    skipped,    \* per dimension: its last sample could not be read while it had an
                \* active incident
    noFail,     \* no delivery has failed so far
    flags,      \* the parsed flags; NewSystemMonitor copies them into the monitor
    ticker,     \* ticker.C and the loop: ticks waiting in the channel, cycles begun
    probe       \* a function called on its own: its inputs and its results

vars == <<incidents, pc, now, last, breached, episode, skipped, noFail,
          flags, ticker, probe>>

\* SystemMonitor.cpuLimit, memoryLimit, diskLimit
cpuLimit == flags.cpuLimit
memoryLimit == flags.memoryLimit
diskLimit == flags.diskLimit

(***************************************************************************)
(* Incidents (type Incident) and the evaluators.                           *)
(***************************************************************************)
\* the Title format strings, with what fills them: the mount, the limit, the host
Title(d) ==
    CASE d = "cpu" ->
           [fmt |-> "CPU usage higher than %.0f%%! - %s", mount |-> "",
            limit |-> cpuLimit, host |-> hostname]
      [] d = "memory" ->
           [fmt |-> "Memory usage higher than %.0f%%! - %s", mount |-> "",
            limit |-> memoryLimit, host |-> hostname]
      [] d = "/" ->
           [fmt |-> "Root disk usage higher than %.0f%%! - %s", mount |-> "",
            limit |-> diskLimit, host |-> hostname]
      [] OTHER ->
           [fmt |-> "%s disk usage higher than %.0f%%! - %s", mount |-> d,
            limit |-> diskLimit, host |-> hostname]

Cause(t) ==
    CASE t = "cpu" -> "High CPU usage" [] t = "memory" -> "High memory usage"
      [] OTHER -> "High disk usage"

\* the AlertID format strings, filled with the host name
AlertID(d) ==
    CASE d = "cpu"    -> [fmt |-> "high-cpu-%s", host |-> hostname]
      [] d = "memory" -> [fmt |-> "high-memory-%s", host |-> hostname]
      [] OTHER        -> [fmt |-> "high-disk-%s", host |-> hostname]

\* an Incident literal of the evaluators; Resolved is left at its zero value
NewIncident(d, t) ==
    [Title |-> Title(d), Cause |-> Cause(Class(d)), AlertID |-> AlertID(d),
     Timestamp |-> t, Resolved |-> FALSE]

\* the dimension an incident is about (its Title names it)
DimOf(inc) == CHOOSE d \in Dims : Title(d) = inc.Title

NilPtr == [nil |-> TRUE]

\* cpu.Percent answers: an error, an empty slice, or one percentage
CpuSamples == {[err |-> TRUE, percent |-> <<>>], [err |-> FALSE, percent |-> <<>>]}
                \cup {[err |-> FALSE, percent |-> <<v>>] : v \in Values}

\* mem.VirtualMemory and disk.Usage answers: an error or a used percentage
UsageSamples == {[err |-> TRUE, UsedPercent |-> 0]}
                  \cup {[err |-> FALSE, UsedPercent |-> v] : v \in Values}

\* mutant: the comparison admits a usage equal to the limit
evaluateCPUIncident_AtLimit(sample, t) ==
    IF sample.err THEN [inc |-> NilPtr, err |-> TRUE]
    ELSE IF Len(sample.percent) = 0 THEN [inc |-> NilPtr, err |-> FALSE]
    ELSE IF ~cpuLimit.nan /\ sample.percent[1] >= cpuLimit.v
         THEN [inc |-> NewIncident("cpu", t), err |-> FALSE]
         ELSE [inc |-> NilPtr, err |-> FALSE]

evaluateCPUIncident(sample, t) ==
    IF sample.err THEN [inc |-> NilPtr, err |-> TRUE]
    ELSE IF Len(sample.percent) = 0 THEN [inc |-> NilPtr, err |-> FALSE]
    ELSE IF FloatGreater(Float(sample.percent[1]), cpuLimit)
         THEN [inc |-> NewIncident("cpu", t), err |-> FALSE]
         ELSE [inc |-> NilPtr, err |-> FALSE]

\* mutant: the memory evaluator builds the cpu incident (a copied literal)
evaluateMemoryIncident_CopiedCpu(sample, t) ==
    IF sample.err THEN [inc |-> NilPtr, err |-> TRUE]
    ELSE IF FloatGreater(Float(sample.UsedPercent), memoryLimit)
         THEN [inc |-> NewIncident("cpu", t), err |-> FALSE]
         ELSE [inc |-> NilPtr, err |-> FALSE]

\* mutant: the comparison admits a usage equal to the limit
evaluateMemoryIncident_AtLimit(sample, t) ==
    IF sample.err THEN [inc |-> NilPtr, err |-> TRUE]
    ELSE IF ~memoryLimit.nan /\ sample.UsedPercent >= memoryLimit.v
         THEN [inc |-> NewIncident("memory", t), err |-> FALSE]
         ELSE [inc |-> NilPtr, err |-> FALSE]

evaluateMemoryIncident(sample, t) ==
    IF sample.err THEN [inc |-> NilPtr, err |-> TRUE]
    ELSE IF FloatGreater(Float(sample.UsedPercent), memoryLimit)
         THEN [inc |-> NewIncident("memory", t), err |-> FALSE]
         ELSE [inc |-> NilPtr, err |-> FALSE]

\* the loop over the mounts: a mount whose usage cannot be read is skipped
RECURSIVE MountIncidents(_, _, _)
MountIncidents(mounts, usage, t) ==
    IF mounts = <<>> THEN <<>>
    ELSE LET m == Head(mounts)
             rest == MountIncidents(Tail(mounts), usage, t)
         IN IF usage[m].err THEN rest
            ELSE IF FloatGreater(Float(usage[m].UsedPercent), diskLimit)
                 THEN <<NewIncident(m, t)>> \o rest
                 ELSE rest

\* root: disk.Usage("/"); mounts: the Glob result; usage: disk.Usage per mount.
\* Glob fails only on a malformed pattern, which "/mnt/*" is not.
evaluateDiskIncident(root, mounts, usage, t) ==
    IF root.err THEN [list |-> <<>>, err |-> TRUE]
    ELSE LET rootInc == IF FloatGreater(Float(root.UsedPercent), diskLimit)
                        THEN <<NewIncident("/", t)>> ELSE <<>>
         IN [list |-> rootInc \o MountIncidents(mounts, usage, t), err |-> FALSE]

(***************************************************************************)
(* The closures Start hands to processType return interface{}: a *Incident *)
(* or []Incident stored in an interface is a non-nil interface value even  *)
(* when the pointer or the slice inside it is nil.                         *)
(***************************************************************************)
ToInterface(type, v) == [type |-> type, v |-> v]

UntypedNil == [type |-> "nil", v |-> NilPtr]

\* `incidents == nil` on an interface{}: true only of the untyped nil
IsNilInterface(x) == x.type = "nil"

evaluateCPU(sample, t) ==
    LET r == evaluateCPUIncident(sample, t)
    IN [val |-> ToInterface("*Incident", r.inc), err |-> r.err]

evaluateMemory(sample, t) ==
    LET r == evaluateMemoryIncident(sample, t)
    IN [val |-> ToInterface("*Incident", r.inc), err |-> r.err]

evaluateDisk(root, mounts, usage, t) ==
    LET r == evaluateDiskIncident(root, mounts, usage, t)
    IN [val |-> ToInterface("[]Incident", r.list), err |-> r.err]

(***************************************************************************)
(* Delivery: sendIncident, createIncident, resolveIncident.  resp is the   *)
(* answer httpClient.Do gets.  The result records what was posted.         *)
(***************************************************************************)
\* mutant: status 400 itself counts as delivered
sendIncident_Above400(incident, resp) ==
    [payload |-> incident, resp |-> resp,
     err |-> resp.neterr \/ resp.status > FailStatus]

sendIncident(incident, resp) ==
    [payload |-> incident, resp |-> resp,
     err |-> resp.neterr \/ resp.status >= FailStatus]

createIncident(incident, resp) ==
    [op |-> "create"] @@ sendIncident(incident, resp)

\* mutant: the flag is not set on the copy
resolveIncident_NoFlag(incident, resp) ==
    [op |-> "resolve"] @@ sendIncident(incident, resp)

\* the incident is passed by value: the flag is set on the copy
resolveIncident(incident, resp) ==
    [op |-> "resolve"] @@ sendIncident([incident EXCEPT !.Resolved = TRUE], resp)

\* the loop `for _, incident := range i`, from index k: it returns at the
\* first create that fails
RECURSIVE createEach(_, _, _)
createEach(list, resps, k) ==
    IF k > Len(list) THEN <<>>
    ELSE LET n == createIncident(list[k], resps[k])
         IN IF n.err THEN <<n>> ELSE <<n>> \o createEach(list, resps, k + 1)

AnyErr(sent) == \E k \in 1..Len(sent) : sent[k].err

(***************************************************************************)
(* Mutants of processType.                                                 *)
(***************************************************************************)
\* mutant: the check for an already active incident is missing
processType_NoSkip(monitorType, res, resps) ==
    LET active == incidents[monitorType]
        keep(sent, e) == [incidents |-> active, out |-> sent, err |-> e]
    IN IF res.err THEN keep(<<>>, TRUE)
       ELSE IF IsNilInterface(res.val) THEN
            IF Len(active) > 0
            THEN [incidents |-> <<>>,
                  out |-> [k \in 1..Len(active) |-> resolveIncident(active[k], resps[k])],
                  err |-> FALSE]
            ELSE keep(<<>>, FALSE)
       ELSE IF res.val.type = "*Incident" THEN
            IF res.val.v # NilPtr
            THEN LET n == createIncident(res.val.v, resps[1])
                 IN IF n.err THEN keep(<<n>>, TRUE)
                    ELSE [incidents |-> <<res.val.v>>, out |-> <<n>>, err |-> FALSE]
            ELSE keep(<<>>, FALSE)
       ELSE LET sent == createEach(res.val.v, resps, 1)
            IN IF AnyErr(sent) THEN keep(sent, TRUE)
               ELSE [incidents |-> res.val.v, out |-> sent, err |-> FALSE]

\* mutant: new incidents are appended to the active ones instead of being
\* skipped while some are active
processType_Append(monitorType, res, resps) ==
    LET active == incidents[monitorType]
        keep(sent, e) == [incidents |-> active, out |-> sent, err |-> e]
    IN IF res.err THEN keep(<<>>, TRUE)
       ELSE IF IsNilInterface(res.val) THEN
            IF Len(active) > 0
            THEN [incidents |-> <<>>,
                  out |-> [k \in 1..Len(active) |-> resolveIncident(active[k], resps[k])],
                  err |-> FALSE]
            ELSE keep(<<>>, FALSE)
       ELSE IF res.val.type = "*Incident" THEN
            IF res.val.v # NilPtr
            THEN LET n == createIncident(res.val.v, resps[1])
                 IN IF n.err THEN keep(<<n>>, TRUE)
                    ELSE [incidents |-> active \o <<res.val.v>>, out |-> <<n>>,
                          err |-> FALSE]
            ELSE keep(<<>>, FALSE)
       ELSE LET sent == createEach(res.val.v, resps, 1)
            IN IF AnyErr(sent) THEN keep(sent, TRUE)
               ELSE [incidents |-> active \o res.val.v, out |-> sent, err |-> FALSE]

\* mutant: the incident is recorded before the create is posted, so a failed
\* create leaves it recorded
processType_RecordsFirst(monitorType, res, resps) ==
    LET active == incidents[monitorType]
        keep(sent, e) == [incidents |-> active, out |-> sent, err |-> e]
    IN IF res.err THEN keep(<<>>, TRUE)
       ELSE IF IsNilInterface(res.val) THEN
            IF Len(active) > 0
            THEN [incidents |-> <<>>,
                  out |-> [k \in 1..Len(active) |-> resolveIncident(active[k], resps[k])],
                  err |-> FALSE]
            ELSE keep(<<>>, FALSE)
       ELSE IF Len(active) > 0 THEN keep(<<>>, FALSE)
       ELSE IF res.val.type = "*Incident" THEN
            IF res.val.v # NilPtr
            THEN LET n == createIncident(res.val.v, resps[1])
                 IN [incidents |-> <<res.val.v>>, out |-> <<n>>, err |-> n.err]
            ELSE keep(<<>>, FALSE)
       ELSE LET sent == createEach(res.val.v, resps, 1)
            IN [incidents |-> res.val.v, out |-> sent, err |-> AnyErr(sent)]

\* mutant: a failed resolve is rolled back (the incidents are kept and the
\* error returned)
processType_KeepsUnresolved(monitorType, res, resps) ==
    LET active == incidents[monitorType]
        keep(sent, e) == [incidents |-> active, out |-> sent, err |-> e]
    IN IF res.err THEN keep(<<>>, TRUE)
       ELSE IF IsNilInterface(res.val) THEN
            IF Len(active) > 0
            THEN LET sent == [k \in 1..Len(active) |->
                                 resolveIncident(active[k], resps[k])]
                 IN IF AnyErr(sent) THEN keep(sent, TRUE)
                    ELSE [incidents |-> <<>>, out |-> sent, err |-> FALSE]
            ELSE keep(<<>>, FALSE)
       ELSE IF Len(active) > 0 THEN keep(<<>>, FALSE)
       ELSE IF res.val.type = "*Incident" THEN
            IF res.val.v # NilPtr
            THEN LET n == createIncident(res.val.v, resps[1])
                 IN IF n.err THEN keep(<<n>>, TRUE)
                    ELSE [incidents |-> <<res.val.v>>, out |-> <<n>>, err |-> FALSE]
            ELSE keep(<<>>, FALSE)
       ELSE \* []Incident
            LET sent == createEach(res.val.v, resps, 1)
            IN IF AnyErr(sent) THEN keep(sent, TRUE)
               ELSE [incidents |-> res.val.v, out |-> sent, err |-> FALSE]

\* mutant: when a create of a batch fails, the incidents whose creates were
\* delivered before it are recorded
processType_RecordsDelivered(monitorType, res, resps) ==
    LET active == incidents[monitorType]
        keep(sent, e) == [incidents |-> active, out |-> sent, err |-> e]
    IN IF res.err THEN keep(<<>>, TRUE)
       ELSE IF IsNilInterface(res.val) THEN
            IF Len(active) > 0
            THEN [incidents |-> <<>>,
                  out |-> [k \in 1..Len(active) |-> resolveIncident(active[k], resps[k])],
                  err |-> FALSE]
            ELSE keep(<<>>, FALSE)
       ELSE IF Len(active) > 0 THEN keep(<<>>, FALSE)
       ELSE IF res.val.type = "*Incident" THEN
            IF res.val.v # NilPtr
            THEN LET n == createIncident(res.val.v, resps[1])
                 IN IF n.err THEN keep(<<n>>, TRUE)
                    ELSE [incidents |-> <<res.val.v>>, out |-> <<n>>, err |-> FALSE]
            ELSE keep(<<>>, FALSE)
       ELSE \* []Incident
            LET sent == createEach(res.val.v, resps, 1)
            IN IF AnyErr(sent)
               THEN [incidents |-> SubSeq(res.val.v, 1, Len(sent) - 1), out |-> sent,
                     err |-> TRUE]
               ELSE [incidents |-> res.val.v, out |-> sent, err |-> FALSE]

\* mutant: the resolved incidents stay in the list
processType_KeepsResolved(monitorType, res, resps) ==
    LET active == incidents[monitorType]
        keep(sent, e) == [incidents |-> active, out |-> sent, err |-> e]
    IN IF res.err THEN keep(<<>>, TRUE)
       ELSE IF IsNilInterface(res.val) THEN
            IF Len(active) > 0
            THEN keep([k \in 1..Len(active) |-> resolveIncident(active[k], resps[k])],
                      FALSE)
            ELSE keep(<<>>, FALSE)
       ELSE IF Len(active) > 0 THEN keep(<<>>, FALSE)
       ELSE IF res.val.type = "*Incident" THEN
            IF res.val.v # NilPtr
            THEN LET n == createIncident(res.val.v, resps[1])
                 IN IF n.err THEN keep(<<n>>, TRUE)
                    ELSE [incidents |-> <<res.val.v>>, out |-> <<n>>, err |-> FALSE]
            ELSE keep(<<>>, FALSE)
       ELSE \* []Incident
            LET sent == createEach(res.val.v, resps, 1)
            IN IF AnyErr(sent) THEN keep(sent, TRUE)
               ELSE [incidents |-> res.val.v, out |-> sent, err |-> FALSE]

(***************************************************************************)
(* processType(monitorType, evaluate): res is what evaluate() returned,    *)
(* resps the webhook's answers to the posts of this call, in order.        *)
(* Yields the new list of the type, the posts made and the error returned. *)
(***************************************************************************)
processType(monitorType, res, resps) ==
    LET active == incidents[monitorType]
        keep(sent, e) == [incidents |-> active, out |-> sent, err |-> e]
    IN IF res.err THEN keep(<<>>, TRUE)
       ELSE IF IsNilInterface(res.val) THEN
            IF Len(active) > 0
            THEN [incidents |-> <<>>,
                  out |-> [k \in 1..Len(active) |-> resolveIncident(active[k], resps[k])],
                  err |-> FALSE]
            ELSE keep(<<>>, FALSE)
       ELSE IF Len(active) > 0 THEN keep(<<>>, FALSE)
       ELSE IF res.val.type = "*Incident" THEN
            IF res.val.v # NilPtr
            THEN LET n == createIncident(res.val.v, resps[1])
                 IN IF n.err THEN keep(<<n>>, TRUE)
                    ELSE [incidents |-> <<res.val.v>>, out |-> <<n>>, err |-> FALSE]
            ELSE keep(<<>>, FALSE)
       ELSE \* []Incident
            LET sent == createEach(res.val.v, resps, 1)
            IN IF AnyErr(sent) THEN keep(sent, TRUE)
               ELSE [incidents |-> res.val.v, out |-> sent, err |-> FALSE]

\* how many posts a call makes at most: one answer is drawn for each
Posts(monitorType, res) ==
    IF res.err THEN 0
    ELSE IF IsNilInterface(res.val) THEN Len(incidents[monitorType])
    ELSE IF res.val.type = "*Incident" THEN (IF res.val.v # NilPtr THEN 1 ELSE 0)
    ELSE Len(res.val.v)

(***************************************************************************)
(* What the host showed of each dimension during a call ("none" for the    *)
(* dimensions of the other types): "breach" (a sample over its limit),     *)
(* "ok" (no sample over the limit), "error" (the sample could not be       *)
(* read), "absent" (a mount that Glob did not list).                       *)
(***************************************************************************)
\* a breach: a sample exceeding its configured limit
Over(v, limit) == ~limit.nan /\ v > limit.v

ObservedCPU(sample) ==
    [d \in Dims |->
        IF d # "cpu" THEN "none"
        ELSE IF sample.err THEN "error"
        ELSE IF Len(sample.percent) > 0 /\ Over(sample.percent[1], cpuLimit)
             THEN "breach" ELSE "ok"]

ObservedMemory(sample) ==
    [d \in Dims |->
        IF d # "memory" THEN "none"
        ELSE IF sample.err THEN "error"
        ELSE IF Over(sample.UsedPercent, memoryLimit) THEN "breach" ELSE "ok"]

\* an unreadable root filesystem makes the whole evaluation fail
ObservedDisk(root, present, usage) ==
    [d \in Dims |->
        IF Class(d) # "disk" THEN "none"
        ELSE IF root.err THEN "error"
        ELSE IF d = "/"
             THEN (IF Over(root.UsedPercent, diskLimit) THEN "breach" ELSE "ok")
        ELSE IF d \notin present THEN "absent"
        ELSE IF usage[d].err THEN "error"
        ELSE IF Over(usage[d].UsedPercent, diskLimit) THEN "breach" ELSE "ok"]

\* dimension d has an incident in the active-incident lists
HasActive(d) ==
    \E k \in 1..Len(incidents[Class(d)]) : DimOf(incidents[Class(d)][k]) = d

\* the posts of kind op among sent that are about dimension d
PostsFor(sent, op, d) ==
    {k \in 1..Len(sent) : sent[k].op = op /\ DimOf(sent[k].payload) = d}

\* mutant: an error ends the cycle (the remaining types wait for the next tick)
LoopNext_EndsCycleOnError(t, err) ==
    IF err THEN "wait"
    ELSE CASE t = "cpu" -> "memory" [] t = "memory" -> "disk" [] OTHER -> "wait"

\* where Start's loop goes after the processType call of type t: the error
\* is only logged
LoopNext(t, err) ==
    CASE t = "cpu" -> "memory" [] t = "memory" -> "disk" [] OTHER -> "wait"

(***************************************************************************)
(* One call of processType from Start's loop, with the bookkeeping of what *)
(* it observed and posted.                                                 *)
(***************************************************************************)
Reconcile(t, res, obs) ==
    \E resps \in [1..Posts(t, res) -> Responses] :
        LET r == processType(t, res, resps)
        IN /\ incidents' = [incidents EXCEPT ![t] = r.incidents]
           /\ pc' = LoopNext(t, r.err)
           /\ last' = [type |-> t, obs |-> obs, out |-> r.out, err |-> r.err]
           /\ breached' = [d \in Dims |->
                   CASE obs[d] = "breach" -> TRUE
                     [] obs[d] \in {"ok", "absent"} -> FALSE
                     [] OTHER -> breached[d]]
           /\ episode' = [d \in Dims |->
                   CASE obs[d] = "breach" ->
                          IF \E k \in PostsFor(r.out, "create", d) : ~r.out[k].err
                          THEN "delivered"
                          ELSE IF PostsFor(r.out, "create", d) # {} /\ episode[d] = "none"
                               THEN "failed"
                               ELSE episode[d]
                     [] obs[d] \in {"ok", "absent"} -> "none"
                     [] OTHER -> episode[d]]
           /\ skipped' = [d \in Dims |->
                   CASE obs[d] = "error" -> HasActive(d)
                     [] obs[d] = "none" -> skipped[d]
                     [] OTHER -> FALSE]
           /\ noFail' = (noFail /\ ~AnyErr(r.out))

\* a value of the required flag -url
WebhookURL == "https://uptime.betterstack.com/api/v1/incoming-webhook/x"

NoProbe == [in |-> <<>>, out |-> <<>>]

\* the monitor main has constructed from valid flags, Start entered
Init ==
    /\ incidents = [t \in Types |-> <<>>]
    /\ pc = "wait"
    /\ now = 0
    /\ last = [type |-> "none", obs |-> [d \in Dims |-> "none"], out |-> <<>>,
               err |-> FALSE]
    /\ breached = [d \in Dims |-> FALSE]
    /\ episode = [d \in Dims |-> "none"]
    /\ skipped = [d \in Dims |-> FALSE]
    /\ noFail = TRUE
    /\ flags = [FlagDefaults EXCEPT !.url = WebhookURL]
    /\ ticker = [buffered |-> 0, cycles |-> 0]
    /\ probe = NoProbe

\* `for range ticker.C`: the loop body starts when a tick is received.  Here
\* the tick fires while the loop is waiting and is received at once.
Tick ==
    /\ pc = "wait"
    /\ now < MaxTime
    /\ pc' = "cpu"
    /\ now' = now + 1
    /\ ticker' = [ticker EXCEPT !.cycles = @ + 1]
    /\ UNCHANGED <<incidents, last, breached, episode, skipped, noFail, flags, probe>>

ProcessCPU ==
    /\ pc = "cpu"
    /\ \E sample \in CpuSamples :
          LET res == evaluateCPU(sample, now)
          IN Reconcile("cpu", res, ObservedCPU(sample))
    /\ UNCHANGED <<now, flags, ticker, probe>>

ProcessMemory ==
    /\ pc = "memory"
    /\ \E sample \in UsageSamples :
          LET res == evaluateMemory(sample, now)
          IN Reconcile("memory", res, ObservedMemory(sample))
    /\ UNCHANGED <<now, flags, ticker, probe>>

ProcessDisk ==
    /\ pc = "disk"
    /\ \E root \in UsageSamples, present \in SUBSET Mounts :
        \E usage \in [present -> UsageSamples] :
          LET mounts == SelectSeq(MountOrder, LAMBDA m : m \in present)
              res == evaluateDisk(root, mounts, usage, now)
          IN Reconcile("disk", res, ObservedDisk(root, present, usage))
    /\ UNCHANGED <<now, flags, ticker, probe>>

Next == Tick \/ ProcessCPU \/ ProcessMemory \/ ProcessDisk

Spec == Init /\ [][Next]_vars

(***************************************************************************)
(* The ticker on its own clock.  time.Ticker sends each tick on ticker.C,  *)
(* a channel that holds one tick, without blocking: a tick that finds the  *)
(* channel full is dropped.  A waiting loop takes a tick from the channel  *)
(* long before the next one fires (the interval is at least a second), so  *)
(* a tick can find the channel full only while a cycle is running.         *)
(***************************************************************************)
\* mutant: the channel keeps every tick
Fire_Queues ==
    /\ now < MaxTime
    /\ pc = "wait" => ticker.buffered = 0
    /\ now' = now + 1
    /\ ticker' = [ticker EXCEPT !.buffered = @ + 1]
    /\ UNCHANGED <<incidents, pc, last, breached, episode, skipped, noFail, flags, probe>>

\* the ticker fires
Fire ==
    /\ now < MaxTime
    /\ pc = "wait" => ticker.buffered = 0
    /\ now' = now + 1
    /\ ticker' = [ticker EXCEPT !.buffered = 1]
    /\ UNCHANGED <<incidents, pc, last, breached, episode, skipped, noFail, flags, probe>>

\* mutant: a tick starts a cycle wherever the loop stands
Receive_Overlapping ==
    /\ ticker.buffered > 0
    /\ pc' = "cpu"
    /\ ticker' = [buffered |-> ticker.buffered - 1, cycles |-> ticker.cycles + 1]
    /\ UNCHANGED <<incidents, now, last, breached, episode, skipped, noFail, flags, probe>>

\* `for range ticker.C`: the waiting loop takes the tick and starts a cycle
Receive ==
    /\ pc = "wait"
    /\ ticker.buffered > 0
    /\ pc' = "cpu"
    /\ ticker' = [buffered |-> ticker.buffered - 1, cycles |-> ticker.cycles + 1]
    /\ UNCHANGED <<incidents, now, last, breached, episode, skipped, noFail, flags, probe>>

NextTicker == Fire \/ Receive \/ ProcessCPU \/ ProcessMemory \/ ProcessDisk

SpecTicker == Init /\ [][NextTicker]_vars

\* the ticks that fired and neither started a cycle nor wait in the channel
Lost == now - ticker.cycles - ticker.buffered

(***************************************************************************)
(* processType called directly.  Its parameter is any function returning   *)
(* (interface{}, error); that includes a function that returns the nil     *)
(* interface when its evaluator found no incident, the only input that     *)
(* takes processType into its resolve branch.  SpecDirect runs the loop    *)
(* with such functions in the place of Start's closures.                   *)
(***************************************************************************)
\* the evaluator's result as returned by a function that returns a plain nil
\* when there is no incident
NilChecked(res) ==
    IF \/ (res.val.type = "*Incident" /\ res.val.v = NilPtr)
       \/ (res.val.type = "[]Incident" /\ res.val.v = <<>>)
    THEN [val |-> UntypedNil, err |-> res.err]
    ELSE res

DirectCPU ==
    /\ pc = "cpu"
    /\ \E sample \in CpuSamples :
          LET res == NilChecked(evaluateCPU(sample, now))
          IN Reconcile("cpu", res, ObservedCPU(sample))
    /\ UNCHANGED <<now, flags, ticker, probe>>

DirectMemory ==
    /\ pc = "memory"
    /\ \E sample \in UsageSamples :
          LET res == NilChecked(evaluateMemory(sample, now))
          IN Reconcile("memory", res, ObservedMemory(sample))
    /\ UNCHANGED <<now, flags, ticker, probe>>

DirectDisk ==
    /\ pc = "disk"
    /\ \E root \in UsageSamples, present \in SUBSET Mounts :
        \E usage \in [present -> UsageSamples] :
          LET mounts == SelectSeq(MountOrder, LAMBDA m : m \in present)
              res == NilChecked(evaluateDisk(root, mounts, usage, now))
          IN Reconcile("disk", res, ObservedDisk(root, present, usage))
    /\ UNCHANGED <<now, flags, ticker, probe>>

NextDirect == Tick \/ DirectCPU \/ DirectMemory \/ DirectDisk

SpecDirect == Init /\ [][NextDirect]_vars

(***************************************************************************)
(* The metric reporter (src/unnamed/part_001): its status and delivery.    *)
(***************************************************************************)
getStatus(value, limit) == IF FloatGreater(value, limit) THEN "fail" ELSE "pass"

\* the Metric literal of checkCPU
CpuMetric(value, t) ==
    [Title |-> [fmt |-> "CPU Usage - %s", host |-> hostname],
     Cause |-> "CPU monitoring check",
     AlertID |-> [fmt |-> "cpu-%s", host |-> hostname],
     Timestamp |-> t, Status |-> getStatus(value, cpuLimit),
     Value |-> value, Limit |-> cpuLimit]

sendMetric(metric, resp) ==
    [payload |-> metric, resp |-> resp,
     err |-> resp.neterr \/ resp.status >= FailStatus]

(***************************************************************************)
(* The evaluators, getStatus and the two senders called on their own, on   *)
(* one usage value under one limit and with one answer of the webhook.     *)
(***************************************************************************)
ProbeValues == {0, 50, 84, 85, 86, 89, 90, 91, 100}

\* limits a running monitor can have (main lets a NaN through)
ProbeLimits == {Float(0), Float(50), Float(85), Float(90), Float(100), NaN}

\* httpClient.Do fails (refused, timeout), or answers with a status code
ProbeResponses == {[neterr |-> TRUE, status |-> 0]}
    \cup {[neterr |-> FALSE, status |-> c] : c \in {100, 200, 302, 399, 400, 401, 500, 599}}

InitUnit ==
    /\ incidents = [t \in Types |-> <<>>]
    /\ pc = "wait"
    /\ now = 0
    /\ last = [type |-> "none", obs |-> [d \in Dims |-> "none"], out |-> <<>>,
               err |-> FALSE]
    /\ breached = [d \in Dims |-> FALSE]
    /\ episode = [d \in Dims |-> "none"]
    /\ skipped = [d \in Dims |-> FALSE]
    /\ noFail = TRUE
    /\ \E l \in ProbeLimits :
          flags = [FlagDefaults EXCEPT !.url = WebhookURL, !.cpuLimit = l,
                                       !.memoryLimit = l, !.diskLimit = l]
    /\ ticker = [buffered |-> 0, cycles |-> 0]
    /\ \E v \in ProbeValues, r \in ProbeResponses :
          probe = [in |-> [value |-> v, resp |-> r], out |-> <<>>]

\* the three evaluators and getStatus on the value: every mount shows it too
Evaluate ==
    /\ "status" \notin DOMAIN probe.out
    /\ LET v == probe.in.value
           usage == [err |-> FALSE, UsedPercent |-> v]
       IN probe' = [probe EXCEPT !.out = @ @@
             [cpu |-> evaluateCPUIncident([err |-> FALSE, percent |-> <<v>>], now).inc
                         # NilPtr,
              memory |-> evaluateMemoryIncident(usage, now).inc # NilPtr,
              disk |-> Len(evaluateDiskIncident(usage, MountOrder,
                                                [m \in Mounts |-> usage], now).list),
              status |-> getStatus(Float(v), cpuLimit)]]
    /\ UNCHANGED <<incidents, pc, now, last, breached, episode, skipped, noFail,
                   flags, ticker>>

\* sendIncident and sendMetric with the answer
Send ==
    /\ "incidentErr" \notin DOMAIN probe.out
    /\ probe' = [probe EXCEPT !.out = @ @@
          [incidentErr |-> sendIncident(NewIncident("cpu", now), probe.in.resp).err,
           metricErr |-> sendMetric(CpuMetric(Float(probe.in.value), now),
                                    probe.in.resp).err]]
    /\ UNCHANGED <<incidents, pc, now, last, breached, episode, skipped, noFail,
                   flags, ticker>>

NextUnit == Evaluate \/ Send

SpecUnit == InitUnit /\ [][NextUnit]_vars

(***************************************************************************)
(* main: the flags are parsed, validated, and the monitor is constructed   *)
(* and started.  log.Fatal ends the process.                               *)
(***************************************************************************)
\* what -interval and the three limit flags may parse to
FlagIntervals == {-1, 0, 1, 300}
FlagLimits == {Float(-1), Float(0), Float(90), Float(100), Float(101), NaN}

\* before NewSystemMonitor there is no monitor and no incidents map
NoMonitor == <<>>

\* the validation of main, in its order: the first test that fails is fatal
Validate(f) ==
    IF f.url = "" THEN "Error: BetterStack webhook URL is required"
    ELSE IF f.interval <= 0 THEN "Error: interval must be greater than 0"
    ELSE IF FloatLess(f.cpuLimit, Float(0)) \/ FloatGreater(f.cpuLimit, Float(100))
         THEN "Error: cpu-limit must be between 0 and 100"
    ELSE IF FloatLess(f.memoryLimit, Float(0)) \/ FloatGreater(f.memoryLimit, Float(100))
         THEN "Error: memory-limit must be between 0 and 100"
    ELSE IF FloatLess(f.diskLimit, Float(0)) \/ FloatGreater(f.diskLimit, Float(100))
         THEN "Error: disk-limit must be between 0 and 100"
    ELSE "ok"

InitMain ==
    /\ incidents = NoMonitor
    /\ pc = "main"
    /\ now = 0
    /\ last = [type |-> "none", obs |-> [d \in Dims |-> "none"], out |-> <<>>,
               err |-> FALSE]
    /\ breached = [d \in Dims |-> FALSE]
    /\ episode = [d \in Dims |-> "none"]
    /\ skipped = [d \in Dims |-> FALSE]
    /\ noFail = TRUE
    /\ \E u \in {"", WebhookURL}, i \in FlagIntervals :
         \E c \in FlagLimits, m \in FlagLimits, d \in FlagLimits :
            flags = [url |-> u, interval |-> i, cpuLimit |-> c, memoryLimit |-> m,
                     diskLimit |-> d]
    /\ ticker = [buffered |-> 0, cycles |-> 0]
    /\ probe = NoProbe

\* main after flag.Parse: hostErr is whether os.Hostname fails in
\* NewSystemMonitor.  Reaching "wait" is Start at its ticker.
Main ==
    /\ pc = "main"
    /\ \E hostErr \in BOOLEAN :
          IF Validate(flags) = "ok" /\ ~hostErr
          THEN /\ incidents' = [t \in Types |-> <<>>]
               /\ pc' = "wait"
          ELSE /\ pc' = "fatal"
               /\ UNCHANGED incidents
    /\ UNCHANGED <<now, last, breached, episode, skipped, noFail, flags, ticker, probe>>

SpecMain == InitMain /\ [][Main]_vars

\* a limit within [0,100]
InRange(x) == ~x.nan /\ 0 <= x.v /\ x.v <= 100

(***************************************************************************)
(* Vocabulary of the properties.  A step of Start's loop other than the    *)
(* wait for a tick is one processType call; last' then describes it.       *)
(***************************************************************************)
IsCall == pc # "wait"

\* the recorded incidents of dimension d
ActiveOf(d) == SelectSeq(incidents[Class(d)], LAMBDA i : DimOf(i) = d)

\* the posts among sent that are about dimension d
AllPostsFor(sent, d) == PostsFor(sent, "create", d) \cup PostsFor(sent, "resolve", d)

\* every post among sent was delivered
Delivered(sent) == ~AnyErr(sent)

(***************************************************************************)
(* C1: starting from an empty tracker and with every delivery succeeding,  *)
(* the creates sent for a dimension are as many as the false->true         *)
(* transitions of its breach flag and the resolves as many as the          *)
(* true->false transitions.  Counted per call: a call that observes the    *)
(* dimension sends one create exactly when the flag goes up, and one       *)
(* resolve exactly when it goes down (limit 90, samples 50, 95, 95, 50:    *)
(* none, create, none, resolve).                                           *)
(***************************************************************************)
C1_NotificationsMatchTransitions ==
    [][IsCall /\ noFail' =>
        \A d \in Dims :
            last'.obs[d] \in {"breach", "ok", "absent"} =>
                /\ Cardinality(PostsFor(last'.out, "create", d))
                     = (IF ~breached[d] /\ breached'[d] THEN 1 ELSE 0)
                /\ Cardinality(PostsFor(last'.out, "resolve", d))
                     = (IF breached[d] /\ ~breached'[d] THEN 1 ELSE 0)]_vars

(***************************************************************************)
(* C2: a call that evaluates a dimension as not breached while an incident *)
(* is active for it sends a resolve for that incident and removes it from  *)
(* the active-incident set.                                                *)
(***************************************************************************)
C2_NotBreachedResolvesActive ==
    [][IsCall =>
        \A d \in Dims :
            last'.obs[d] = "ok" /\ HasActive(d) =>
                /\ PostsFor(last'.out, "resolve", d) # {}
                /\ ~HasActive(d)']_vars

(***************************************************************************)
(* C3: at most one create is sent per unbroken breach episode of a         *)
(* dimension, whatever the deliveries do.                                  *)
(***************************************************************************)
C3_OneCreatePerEpisode ==
    [][IsCall =>
        \A d \in Dims :
            PostsFor(last'.out, "create", d) # {} =>
                /\ Cardinality(PostsFor(last'.out, "create", d)) = 1
                /\ episode[d] = "none"]_vars

(***************************************************************************)
(* C3, amended: no create is sent while an incident of the dimension's     *)
(* resource class is recorded as active, so for cpu and memory at most one *)
(* create is delivered per unbroken breach episode; a cpu or memory create *)
(* whose delivery failed is not recorded and is sent again in every later  *)
(* breaching cycle of the episode until one is delivered.                  *)
(***************************************************************************)
C3_OneDeliveredCreatePerEpisode ==
    [][IsCall =>
        \A d \in Dims :
            /\ PostsFor(last'.out, "create", d) # {} =>
                  /\ incidents[Class(d)] = <<>>
                  /\ Cardinality(PostsFor(last'.out, "create", d)) = 1
            /\ d \in {"cpu", "memory"} /\ PostsFor(last'.out, "create", d) # {} =>
                  episode[d] # "delivered"
            /\ d \in {"cpu", "memory"} /\ last'.obs[d] = "breach" /\ episode[d] = "failed" =>
                  PostsFor(last'.out, "create", d) # {}]_vars

\* the second cycle's cpu call delivers a create after the create of the
\* first cycle failed: cpu is the only dimension that has breached, so the
\* delivery that failed was its create
C3_Witness ==
    /\ now = 2
    /\ last.type = "cpu"
    /\ last.obs["cpu"] = "breach"
    /\ Len(last.out) = 1
    /\ last.out[1].op = "create"
    /\ ~last.out[1].err
    /\ episode["cpu"] = "delivered"
    /\ HasActive("cpu")
    /\ ~noFail
    /\ \A d \in Dims \ {"cpu"} : ~breached[d]

(***************************************************************************)
(* C4: each disk mount is its own dimension: a mount that starts breaching *)
(* while it has no active incident gets a create in that cycle, whether or *)
(* not another mount has an active incident (shown with every delivery     *)
(* succeeding).                                                            *)
(***************************************************************************)
C4_MountCreatedIndependently ==
    [][IsCall /\ noFail' =>
        \A d \in DimsOf("disk") :
            last'.obs[d] = "breach" /\ ~breached[d] /\ ~HasActive(d) =>
                PostsFor(last'.out, "create", d) # {}]_vars

(***************************************************************************)
(* C5: when a mount with an active incident is no longer listed, exactly   *)
(* one resolve is sent for it and its incident is removed; while it stays  *)
(* absent nothing more is sent for it.                                     *)
(***************************************************************************)
C5_UnmountedResolvedOnce ==
    [][IsCall =>
        \A d \in Mounts :
            last'.obs[d] = "absent" =>
                IF HasActive(d)
                THEN /\ Cardinality(PostsFor(last'.out, "resolve", d)) = 1
                     /\ PostsFor(last'.out, "create", d) = {}
                     /\ ~HasActive(d)'
                ELSE AllPostsFor(last'.out, d) = {}]_vars

(***************************************************************************)
(* C6: a call whose sampling of a dimension fails sends nothing for it and *)
(* leaves its active incident as it was; and when it had an active         *)
(* incident and its next successful sample is under the limit, that call   *)
(* sends the resolve.                                                      *)
(***************************************************************************)
C6_SamplingFailureSkipsThenResolves ==
    [][IsCall =>
        \A d \in Dims :
            /\ last'.obs[d] = "error" =>
                  /\ AllPostsFor(last'.out, d) = {}
                  /\ ActiveOf(d)' = ActiveOf(d)
            /\ skipped[d] /\ last'.obs[d] = "ok" =>
                  PostsFor(last'.out, "resolve", d) # {}]_vars

(***************************************************************************)
(* C7: a call that finds a dimension breaching with no active incident     *)
(* sends one create for it, with resolved = false, and, when that delivery *)
(* succeeds, the dimension has an active incident afterwards (shown with   *)
(* every delivery succeeding).                                             *)
(***************************************************************************)
C7_BreachWithoutActiveCreates ==
    [][IsCall /\ noFail' =>
        \A d \in Dims :
            last'.obs[d] = "breach" /\ ~HasActive(d) =>
                /\ Cardinality(PostsFor(last'.out, "create", d)) = 1
                /\ \A k \in PostsFor(last'.out, "create", d) :
                      ~last'.out[k].payload.Resolved
                /\ HasActive(d)']_vars

(***************************************************************************)
(* C8: a call that finds a dimension breaching while an incident is        *)
(* already active for it sends nothing and leaves the active-incident set  *)
(* as it was, the stored incident and its timestamp included.              *)
(***************************************************************************)
C8_BreachWithActiveIsSuppressed ==
    [][IsCall =>
        \A d \in Dims :
            last'.obs[d] = "breach" /\ HasActive(d) =>
                /\ last'.out = <<>>
                /\ incidents' = incidents]_vars

\* cpu breaches in a cycle after the one that created its incident
C8_Witness ==
    /\ last.type = "cpu"
    /\ last.obs["cpu"] = "breach"
    /\ last.out = <<>>
    /\ Len(incidents["cpu"]) = 1
    /\ incidents["cpu"][1].Timestamp < now

(***************************************************************************)
(* C9: a call that finds a dimension not breaching and without an active   *)
(* incident sends nothing for it and leaves it without one; when no        *)
(* dimension of the type breaches, nothing is sent at all and the          *)
(* active-incident set is unchanged.                                       *)
(***************************************************************************)
C9_QuietWithoutActiveIsNoop ==
    [][IsCall =>
        \A d \in Dims :
            last'.obs[d] = "ok" /\ ~HasActive(d) =>
                /\ AllPostsFor(last'.out, d) = {}
                /\ ~HasActive(d)'
                /\ (\A e \in Dims : last'.obs[e] # "breach") =>
                      /\ last'.out = <<>>
                      /\ \A t \in Types : Len(incidents'[t]) = Len(incidents[t])
                      /\ \A e \in Dims : ActiveOf(e)' = ActiveOf(e)]_vars

\* a disk call at the limit exactly: nothing active, nothing sent
C9_Witness ==
    /\ last.type = "disk"
    /\ last.obs["/"] = "ok"
    /\ last.obs["/mnt/data"] = "ok"
    /\ last.out = <<>>
    /\ incidents["disk"] = <<>>
    /\ now > 1

(***************************************************************************)
(* C10: the active-incident set never holds two incidents of one           *)
(* dimension, and an incident is listed under the type of its dimension.   *)
(***************************************************************************)
C10_AtMostOneActivePerDimension ==
    \A t \in Types :
        /\ \A k \in 1..Len(incidents[t]) : Class(DimOf(incidents[t][k])) = t
        /\ \A j, k \in 1..Len(incidents[t]) :
              DimOf(incidents[t][j]) = DimOf(incidents[t][k]) => j = k

\* every dimension has its incident recorded at once
C10_Witness ==
    \A d \in Dims : Len(ActiveOf(d)) = 1

(***************************************************************************)
(* C11: the resource classes are independent.  Whatever a processType call *)
(* of one class observes and whatever the webhook answers, every post it   *)
(* makes is about a dimension of that class, and the active-incident       *)
(* entries of the other classes are left as they were.                     *)
(***************************************************************************)
C11_ClassesIndependent ==
    [][IsCall =>
        /\ \A k \in 1..Len(last'.out) :
              Class(DimOf(last'.out[k].payload)) = last'.type
        /\ \A t \in Types \ {last'.type} : incidents'[t] = incidents[t]]_vars

\* memory was processed and posted (a create that failed) while cpu had an
\* active incident, which is still recorded
C11_Witness ==
    /\ last.type = "memory"
    /\ last.out # <<>>
    /\ last.err
    /\ Len(incidents["cpu"]) = 1
    /\ incidents["memory"] = <<>>

(***************************************************************************)
(* C12: when the delivery of a resolve fails, the incident is removed all  *)
(* the same and the failure is only logged.  A call that sends a resolve   *)
(* sends it for an incident that was recorded when the call began, leaves  *)
(* the list of its type empty and returns no error, whatever the webhook   *)
(* answered; so a later resolve can only be for an incident created after  *)
(* it.  Checked under SpecDirect: from Start the resolve branch is never   *)
(* entered (C2).                                                           *)
(***************************************************************************)
C12_FailedResolveStillRemoves ==
    [][IsCall =>
        \A k \in 1..Len(last'.out) :
            last'.out[k].op = "resolve" =>
                /\ \E j \in 1..Len(incidents[last'.type]) :
                      last'.out[k].payload
                          = [incidents[last'.type][j] EXCEPT !.Resolved = TRUE]
                /\ incidents'[last'.type] = <<>>
                /\ ~last'.err]_vars

\* a resolve was posted and its delivery failed: the list is empty, no error
C12_Witness ==
    /\ last.out # <<>>
    /\ \A k \in 1..Len(last.out) : last.out[k].op = "resolve" /\ last.out[k].err
    /\ incidents[last.type] = <<>>
    /\ ~last.err

(***************************************************************************)
(* C13: every payload posted by resolveIncident has Resolved = true, every *)
(* payload posted by createIncident has it false, and the incidents kept   *)
(* in the active-incident lists never have the flag set (resolveIncident   *)
(* sets it on its copy).  Checked under SpecDirect, where resolves occur.  *)
(***************************************************************************)
C13_ResolvedFlag ==
    /\ \A k \in 1..Len(last.out) :
          last.out[k].payload.Resolved = (last.out[k].op = "resolve")
    /\ \A t \in Types : \A j \in 1..Len(incidents[t]) : ~incidents[t][j].Resolved

\* the disk call resolved two incidents while cpu keeps a recorded one
C13_Witness ==
    /\ last.type = "disk"
    /\ Len(last.out) = 2
    /\ \A k \in 1..2 : last.out[k].op = "resolve" /\ last.out[k].payload.Resolved
    /\ Len(incidents["cpu"]) = 1

(***************************************************************************)
(* C14: sendIncident (and sendMetric of the metric reporter) reports       *)
(* success exactly when the request completed with a status code below     *)
(* 400: a transport error, a timeout or a status of 400 or more is an      *)
(* error.                                                                  *)
(***************************************************************************)
C14_SuccessBelow400 ==
    "incidentErr" \in DOMAIN probe.out =>
        LET ok == ~probe.in.resp.neterr /\ probe.in.resp.status < 400
        IN /\ probe.out.incidentErr = ~ok
           /\ probe.out.metricErr = ~ok

\* the webhook answered 400: both senders returned an error
C14_Witness ==
    /\ "incidentErr" \in DOMAIN probe.out
    /\ ~probe.in.resp.neterr
    /\ probe.in.resp.status = 400
    /\ probe.out.incidentErr
    /\ probe.out.metricErr

(***************************************************************************)
(* C20: a sample breaches exactly when its value is strictly greater than  *)
(* the limit.  For every value and limit, the cpu, memory and disk         *)
(* evaluators produce an incident, and getStatus answers "fail", exactly   *)
(* when value > limit; at value = limit there is no incident and the       *)
(* status is "pass".  (Nothing is greater than a NaN limit.)               *)
(***************************************************************************)
C20_StrictlyGreater ==
    "status" \in DOMAIN probe.out =>
        LET above == ~cpuLimit.nan /\ probe.in.value > cpuLimit.v
        IN /\ probe.out.cpu = above
           /\ probe.out.memory = above
           /\ probe.out.disk = (IF above THEN 1 + Len(MountOrder) ELSE 0)
           /\ probe.out.status = (IF above THEN "fail" ELSE "pass")

\* a value equal to the limit: no incident, status "pass"
C20_Witness ==
    /\ "status" \in DOMAIN probe.out
    /\ ~cpuLimit.nan
    /\ probe.in.value = cpuLimit.v
    /\ ~probe.out.cpu
    /\ ~probe.out.memory
    /\ probe.out.disk = 0
    /\ probe.out.status = "pass"

C16_InitialCycleBeforeFirstTick ==
    [][now = 0 /\ now' = 1 => last.type = "disk" /\ pc = "wait"]_vars

(***************************************************************************)
(* C17: ticks are never skipped or coalesced: the k ticks that elapse      *)
(* during an overrunning cycle start k further cycles, so the cycles catch *)
(* up with the ticks.  As claimed: every tick that has fired has started a *)
(* cycle or is waiting to start one.                                       *)
(***************************************************************************)
C17_NoTickLost == now = ticker.cycles + ticker.buffered

(***************************************************************************)
(* C17, amended: of the ticks that fire while a cycle is running, the      *)
(* first is kept and starts the next cycle as soon as the loop is back at  *)
(* the channel; each further one is dropped.  A tick that fires is lost    *)
(* exactly when another is still waiting, the channel never holds more     *)
(* than one, and each cycle takes one waiting tick.                        *)
(***************************************************************************)
C17_OneTickKept ==
    [][/\ now' = now + 1 =>
            ticker'.buffered = 1 /\ ticker'.cycles = ticker.cycles
            /\ Lost' = Lost + ticker.buffered
       /\ ticker'.cycles # ticker.cycles =>
            /\ ticker'.cycles = ticker.cycles + 1
            /\ ticker.buffered = 1 /\ ticker'.buffered = 0
            /\ Lost' = Lost]_vars

\* three ticks fired, the last two during the first cycle: one of them started
\* the second cycle, the other was dropped
C17_Witness ==
    /\ now = 3
    /\ ticker.cycles = 2
    /\ ticker.buffered = 0
    /\ Lost = 1

(***************************************************************************)
(* C18: cycles are strictly sequential.  A cycle begins only when the loop *)
(* is waiting, the disk call of the previous cycle done; between two       *)
(* waits the loop makes the cpu, memory and disk calls in this order; and  *)
(* the active-incident lists change only in a call of the loop, and only   *)
(* the list of the type being processed.  Checked with ticks arriving      *)
(* while a cycle runs.                                                     *)
(***************************************************************************)
C18_CyclesSequential ==
    [][/\ ticker'.cycles # ticker.cycles =>
            pc = "wait" /\ pc' = "cpu" /\ last.type \in {"none", "disk"}
       /\ pc' # pc =>
            <<pc, pc'>> \in {<<"wait", "cpu">>, <<"cpu", "memory">>,
                             <<"memory", "disk">>, <<"disk", "wait">>}
       /\ incidents' # incidents =>
            /\ IsCall /\ last'.type = pc
            /\ \A t \in Types \ {pc} : incidents'[t] = incidents[t]]_vars

\* a tick is waiting in the channel while the first cycle is at its disk call
C18_Witness ==
    /\ pc = "disk"
    /\ ticker.cycles = 1
    /\ ticker.buffered = 1

(***************************************************************************)
(* C19: configuration errors are fatal before any cycle.  If the URL is    *)
(* empty, the interval is not positive or one of the limits lies outside   *)
(* [0,100], main ends the process without constructing the monitor,        *)
(* running a cycle or sending anything; and when Start is reached the      *)
(* interval is positive and the three limits lie in [0,100].               *)
(***************************************************************************)
C19_InvalidConfigIsFatal ==
    LET valid == /\ flags.url # ""
                 /\ flags.interval > 0
                 /\ InRange(flags.cpuLimit)
                 /\ InRange(flags.memoryLimit)
                 /\ InRange(flags.diskLimit)
    IN /\ pc = "fatal" =>
            incidents = NoMonitor /\ last.type = "none" /\ ticker.cycles = 0
       /\ pc # "main" /\ ~valid => pc = "fatal"
       /\ pc \notin {"main", "fatal"} => valid

(***************************************************************************)
(* C21: incidents of different dimensions never carry the same alert_id:   *)
(* among the incidents posted by a call and those recorded as active, two  *)
(* that are about different dimensions (cpu, memory, the root filesystem,  *)
(* each mount) have different AlertIDs.                                    *)
(***************************************************************************)
C21_DistinctAlertIDs ==
    LET seen == {last.out[k].payload : k \in 1..Len(last.out)}
                  \cup UNION {{incidents[t][j] : j \in 1..Len(incidents[t])} : t \in Types}
    IN \A a \in seen, b \in seen :
          DimOf(a) # DimOf(b) => a.AlertID # b.AlertID

(***************************************************************************)
(* C22: every incident recorded as active is one whose create was          *)
(* delivered (the request completed with a status below 400).  The lists   *)
(* start empty, and a call that puts incidents into a list posted a create *)
(* for each of them, every create of the call was delivered, and the call  *)
(* returned no error; a call in which a create failed records nothing.     *)
(***************************************************************************)
C22_RecordedWereDelivered ==
    [][IsCall =>
        /\ \A j \in 1..Len(incidents'[last'.type]) :
              \/ /\ j <= Len(incidents[last'.type])
                 /\ incidents'[last'.type] = incidents[last'.type]
              \/ \E k \in 1..Len(last'.out) :
                    /\ last'.out[k].op = "create"
                    /\ last'.out[k].payload = incidents'[last'.type][j]
                    /\ ~last'.out[k].resp.neterr
                    /\ last'.out[k].resp.status < 400
        /\ incidents'[last'.type] # incidents[last'.type] =>
              /\ ~last'.err
              /\ \A k \in 1..Len(last'.out) :
                    ~last'.out[k].resp.neterr /\ last'.out[k].resp.status < 400
        /\ (\E k \in 1..Len(last'.out) : last'.out[k].op = "create" /\ last'.out[k].err)
              => incidents'[last'.type] = incidents[last'.type]]_vars

\* a disk batch of two: the create for / was delivered, the one for the mount
\* failed, nothing is recorded
C22_Witness ==
    /\ last.type = "disk"
    /\ Len(last.out) = 2
    /\ ~last.out[1].err
    /\ last.out[2].err
    /\ last.err
    /\ incidents["disk"] = <<>>

(***************************************************************************)
(* C23: each resolve is preceded by a create for the same incident that    *)
(* has not been followed by a resolve.  An incident enters a list only     *)
(* with a create posted for it in the same call; a resolve is posted only  *)
(* for an incident that is in the list when the call begins, with the same *)
(* title, alert_id and timestamp; a call posts at most one resolve per     *)
(* incident and leaves the list empty, so that none is resolved twice.     *)
(* Checked under SpecDirect: from Start no resolve is ever posted (C2).    *)
(***************************************************************************)
C23_ResolveFollowsCreate ==
    [][IsCall =>
        LET t == last'.type
            resolves == {k \in 1..Len(last'.out) : last'.out[k].op = "resolve"}
        IN /\ \A k \in resolves :
                 \E j \in 1..Len(incidents[t]) :
                    /\ last'.out[k].payload.Title = incidents[t][j].Title
                    /\ last'.out[k].payload.AlertID = incidents[t][j].AlertID
                    /\ last'.out[k].payload.Timestamp = incidents[t][j].Timestamp
           /\ \A k1 \in resolves, k2 \in resolves :
                 k1 # k2 => last'.out[k1].payload # last'.out[k2].payload
           /\ resolves # {} => incidents'[t] = <<>>
           /\ incidents'[t] # incidents[t] =>
                 \A j \in 1..Len(incidents'[t]) :
                    \E k \in 1..Len(last'.out) :
                       /\ last'.out[k].op = "create"
                       /\ last'.out[k].payload = incidents'[t][j]]_vars

\* second cycle: the memory incident created in the first is resolved
C23_Witness ==
    /\ now = 2
    /\ last.type = "memory"
    /\ Len(last.out) = 1
    /\ last.out[1].op = "resolve"
    /\ last.out[1].payload.Timestamp = 1
    /\ incidents["memory"] = <<>>

====
